---- MODULE Spec2Model ----
(***************************************************************************)
(* Per-owner journal storage on program-derived addresses.                 *)
(*                                                                         *)
(* Three Anchor programs of the repository are modelled, selected by the   *)
(* variable `program`:                                                     *)
(*   "first"   : project-1/anchor/programs/journal/src/lib.rs, the first   *)
(*               program of the file (lines 1-212)                         *)
(*   "journal" : project-1/anchor/programs/journal/src/lib.rs, the revised *)
(*               program (lines 238-430): UserProfile / JournalEntry       *)
(*   "pda"     : project-3-pdas/programs/new-crud-app/src/lib.rs:          *)
(*               UserJournalCounter / JournalEntryState                    *)
(* Each program has its own accounts, instructions and field names.        *)
(*                                                                         *)
(* One action is one transaction holding one instruction.  The runtime     *)
(* executes a transaction atomically: when any step of the instruction     *)
(* fails, every account keeps the value it had before the transaction.     *)
(***************************************************************************)
EXTENDS Integers, Sequences, FiniteSets, TLC

VARIABLES
    program,    \* which of the programs is deployed
    accounts,   \* address -> account data, for every account that exists
    wallet,     \* owner -> net lamports received by the owner's wallet
    clock,      \* Clock::get()?.unix_timestamp
    origin,     \* the first sequence number of the modelled window
    created,    \* history: owner -> number of successful creates
    closed      \* history: the entries that were closed

vars == <<program, accounts, wallet, clock, origin, created, closed>>

----------------------------------------------------------------------------
(* Bounds of the model *)

MaxCreates == 2

MaxTime == 1

Owners == {"A", "B"}

Programs == {"first", "journal", "pda"}

----------------------------------------------------------------------------
(* u64: four 16-bit limbs, least significant first *)

Limb == 2 ^ 16

U64Zero == <<0, 0, 0, 0>>

U64Max == <<Limb - 1, Limb - 1, Limb - 1, Limb - 1>>

FromNat(n) == <<n % Limb, (n \div Limb) % Limb, 0, 0>>

\* Option<u64>
None == [some |-> FALSE, value |-> U64Zero]

Some(u) == [some |-> TRUE, value |-> u]

RECURSIVE AddCarry(_, _, _)
AddCarry(u, i, carry) ==
    IF i > Len(u) THEN IF carry = 0 THEN Some(u) ELSE None
    ELSE LET s == u[i] + carry
         IN  AddCarry([u EXCEPT ![i] = s % Limb], i + 1, s \div Limb)

\* Mutant: the value is handed back as it is.
checked_add_1_NoIncrement(u) == Some(u)

\* Mutant: u64::wrapping_add(self, 1)
wrapping_add_1(u) == IF AddCarry(u, 1, 1).some THEN AddCarry(u, 1, 1) ELSE Some(<<0, 0, 0, 0>>)

\* u64::checked_add(self, 1)
checked_add_1(u) == AddCarry(u, 1, 1)

RECURSIVE U64LessFrom(_, _, _)
U64LessFrom(u, v, i) ==
    IF i = 0 THEN FALSE
    ELSE IF u[i] /= v[i] THEN u[i] < v[i]
    ELSE U64LessFrom(u, v, i - 1)

U64Less(u, v) == U64LessFrom(u, v, 4)

\* u64::to_le_bytes
to_le_bytes(u) ==
    <<u[1] % 256, u[1] \div 256, u[2] % 256, u[2] \div 256,
      u[3] % 256, u[3] \div 256, u[4] % 256, u[4] \div 256>>

\* the u64 values u, u + 1, ..., u + k that exist
RECURSIVE Window(_, _)
Window(u, k) ==
    IF k = 0 \/ ~checked_add_1(u).some THEN {u}
    ELSE {u} \cup Window(checked_add_1(u).value, k - 1)

----------------------------------------------------------------------------
(* Strings.  A String is known by its number of characters and by the      *)
(* number of bytes each of its characters takes in UTF-8.                  *)

Str(n, w) == [chars |-> n, width |-> w]

\* str::chars().count()
CharCount(s) == s.chars

\* String::len(): the length in bytes
ByteLen(s) == s.chars * s.width

\* the Borsh encoding of a String: a u32 length and the bytes
BorshLen(s) == 4 + ByteLen(s)

MAX_TITLE_CHARS == 50

MAX_MESSAGE_CHARS == 280

MAX_TITLE_LENGTH == 100

MAX_MESSAGE_LENGTH == 500

\* the (title, message) pairs of the requests: both at their maximum number
\* of characters; the title, the message, or both over the maximum, of
\* characters and of bytes; characters of two bytes; an empty message
Texts ==
    { <<Str(MAX_TITLE_CHARS, 1), Str(MAX_MESSAGE_CHARS, 1)>>,
      <<Str(MAX_TITLE_CHARS + 1, 1), Str(0, 1)>>,
      <<Str(MAX_TITLE_CHARS, 1), Str(MAX_MESSAGE_CHARS + 1, 2)>>,
      <<Str(MAX_TITLE_CHARS + 1, 2), Str(MAX_MESSAGE_CHARS + 1, 2)>>,
      <<Str(MAX_TITLE_CHARS, 2), Str(MAX_MESSAGE_CHARS, 1)>>,
      <<Str(MAX_TITLE_CHARS, 2), Str(0, 1)>> }

\* the (title, message) pairs the transactions carry: the pairs of Texts that
\* more than one program stores
SentTexts ==
    { <<Str(MAX_TITLE_CHARS, 1), Str(MAX_MESSAGE_CHARS, 1)>>,
      <<Str(MAX_TITLE_CHARS + 1, 1), Str(0, 1)>>,
      <<Str(MAX_TITLE_CHARS, 2), Str(0, 1)>> }

----------------------------------------------------------------------------------------------------------------------------------------
(* Space of the accounts *)

\* UserProfile::LEN of the first program
UserProfile_LEN == 8 + 32 + 8 + 1

\* JournalEntry::space of the first program
JournalEntry_space(title_len, message_len) ==
    8 + 32 + 8 + 4 + title_len + 4 + message_len + 8 + 1

\* #[derive(InitSpace)] of UserProfile: Pubkey, u64, u8
UserProfile_INIT_SPACE == 32 + 8 + 1

\* #[derive(InitSpace)] of JournalEntry: Pubkey, u64, two Strings with
\* #[max_len(n)], each 4 + n, i64, u8
JournalEntry_INIT_SPACE ==
    32 + 8 + (4 + MAX_TITLE_CHARS) + (4 + MAX_MESSAGE_CHARS) + 8 + 1

\* #[derive(InitSpace)] of UserJournalCounter: Pubkey, u64, u8
UserJournalCounter_INIT_SPACE == 32 + 8 + 1

\* #[derive(InitSpace)] of JournalEntryState: Pubkey, String #[max_len(50)],
\* String #[max_len(280)], u64, u8
JournalEntryState_INIT_SPACE == 32 + (4 + 50) + (4 + 280) + 8 + 1

\* the bytes AccountSerialize writes for a JournalEntry: the discriminator
\* and the Borsh encoding of the fields
JournalEntrySerializedLen(title, message) ==
    8 + 32 + 8 + BorshLen(title) + BorshLen(message) + 8 + 1

\* the bytes AccountSerialize writes for a JournalEntryState
JournalEntryStateSerializedLen(title, message) ==
    8 + 32 + BorshLen(title) + BorshLen(message) + 8 + 1

\* the lamports `init` moves from the payer to the new account: the
\* rent-exempt minimum of its space
RentExempt(space) == (128 + space) * 6960

----------------------------------------------------------------------------
(* Program-derived addresses *)

USER_PROFILE_SEED == "user_profile"

JOURNAL_ENTRY_SEED == "journal_entry"

USER_PROFILE_SEED_PREFIX == "user_profile"

JOURNAL_ENTRY_SEED_PREFIX == "journal_entry"

\* seeds = [USER_PROFILE_SEED_PREFIX, authority.key().as_ref()]
UserProfileSeeds(authority) == <<USER_PROFILE_SEED_PREFIX, authority>>

\* seeds = [JOURNAL_ENTRY_SEED_PREFIX, authority.key().as_ref(),
\*          &entry_id.to_le_bytes()]
JournalEntrySeeds(authority, entry_id) ==
    <<JOURNAL_ENTRY_SEED_PREFIX, authority, to_le_bytes(entry_id)>>

\* seeds = [b"counter".as_ref(), owner.key().as_ref()]
UserJournalCounterSeeds(owner) == <<"counter", owner>>

\* Mutant: the owner's key is not among the seeds.
JournalEntryStateSeeds_NoOwner(owner, entry_index) == <<"journal", "journal", to_le_bytes(entry_index)>>

\* seeds = [owner.key().as_ref(), b"journal".as_ref(),
\*          entry_index.to_le_bytes().as_ref()]
JournalEntryStateSeeds(owner, entry_index) ==
    <<owner, "journal", to_le_bytes(entry_index)>>

SumBytes(bytes) ==
    bytes[1] + bytes[2] + bytes[3] + bytes[4] + bytes[5] + bytes[6] + bytes[7] + bytes[8]

\* stands for the hash of the seeds: which bumps give an address off the
\* curve depends on every seed
SeedCode(seeds) ==
    Len(seeds)
    + (IF "B" \in {seeds[1], seeds[2]} THEN 1 ELSE 0)
    + (IF Len(seeds) = 3 THEN SumBytes(seeds[3]) ELSE 0)

OffCurve(seeds, bump) == (SeedCode(seeds) + bump) % 3 /= 0

\* Pubkey::create_program_address, where OffCurve(seeds, bump); it fails
\* otherwise
create_program_address(seeds, bump) == [seeds |-> seeds, bump |-> bump]

RECURSIVE FindFrom(_, _)
FindFrom(seeds, bump) ==
    IF OffCurve(seeds, bump) THEN [seeds |-> seeds, bump |-> bump]
    ELSE FindFrom(seeds, bump - 1)

\* Pubkey::find_program_address: the address of the greatest bump that is
\* off the curve
find_program_address(seeds) == FindFrom(seeds, 255)

\* Mutant: the seeds constraint is missing.
SeedsConstraint_Missing(seeds, bump, key) == TRUE

\* `seeds = ..., bump = <stored bump>` on an account that exists: the address
\* made of the seeds and the stored bump is the account's address
SeedsConstraint(seeds, bump, key) ==
    /\ OffCurve(seeds, bump)
    /\ create_program_address(seeds, bump) = key

\* Mutant: the address to create is not compared with the derived one.
InitSeedsConstraint_Missing(seeds, key) == TRUE

\* `init, seeds = ..., bump`: the account to create is at the address that
\* find_program_address gives for the seeds
InitSeedsConstraint(seeds, key) == key = find_program_address(seeds)

\* the address of an owner's counter, and of an owner's n-th entry
CounterAddress(p, o) ==
    IF p = "first" THEN find_program_address(<<USER_PROFILE_SEED, o>>)
    ELSE IF p = "journal" THEN find_program_address(UserProfileSeeds(o))
    ELSE find_program_address(UserJournalCounterSeeds(o))

EntryAddress(p, o, n) ==
    IF p = "first" THEN find_program_address(<<JOURNAL_ENTRY_SEED, o, to_le_bytes(n)>>)
    ELSE IF p = "journal" THEN find_program_address(JournalEntrySeeds(o, n))
    ELSE find_program_address(JournalEntryStateSeeds(o, n))

----------------------------------------------------------------------------
(* What a transaction does *)

Exists(key) == key \in DOMAIN accounts

Result(e, a, w) == [err |-> e, accounts |-> a, wallet |-> w]

\* a failed instruction: the runtime keeps no change of the transaction
Rollback(e) == Result(e, accounts, wallet)

\* `init, payer = payer, space = space`: the new account, paid by the payer
Allocate(key, data, payer, space) ==
    Result("OK",
           (key :> [data |-> data, lamports |-> RentExempt(space), space |-> space])
               @@ accounts,
           [wallet EXCEPT ![payer] = @ - RentExempt(space)])

\* Mutant: the account is gone and its lamports go to nobody.
Close_LamportsLost(key, receiver) ==
    Result("OK", [k \in DOMAIN accounts \ {key} |-> accounts[k]], wallet)

\* Mutant: the instruction succeeds and the account stays.
Close_AccountStays(key, receiver) == Result("OK", accounts, wallet)

\* `close = receiver`: the account is gone and the receiver has its lamports
Close(key, receiver) ==
    Result("OK",
           [k \in DOMAIN accounts \ {key} |-> accounts[k]],
           [wallet EXCEPT ![receiver] = @ + accounts[key].lamports])

\* a write of the account's data on exit
Store(key, data) ==
    Result("OK", [accounts EXCEPT ![key].data = data], wallet)

----------------------------------------------------------------------------
(* The first program of project-1/anchor/programs/journal/src/lib.rs       *)

\* InitializeUserProfile and initialize_user_profile of the first program
First_InitializeUserProfile(authority, user_profile) ==
    LET seeds == <<USER_PROFILE_SEED, authority>>
        pda == find_program_address(seeds)
    IN  IF ~InitSeedsConstraint(seeds, user_profile) THEN Rollback("ConstraintSeeds")
        ELSE IF Exists(user_profile) THEN Rollback("AccountAlreadyInUse")
        ELSE Allocate(user_profile,
                      [authority |-> authority,
                       entry_count |-> U64Zero,
                       bump |-> pda.bump],
                      authority, UserProfile_LEN)

\* AddJournalEntry and add_journal_entry of the first program
First_AddJournalEntry(authority, user_profile, journal_entry, title, message) ==
    IF ~Exists(user_profile) THEN Rollback("AccountNotInitialized")
    ELSE
    LET profile == accounts[user_profile].data
        seeds == <<JOURNAL_ENTRY_SEED, authority, to_le_bytes(profile.entry_count)>>
        pda == find_program_address(seeds)
        space == JournalEntry_space(MAX_TITLE_LENGTH, MAX_MESSAGE_LENGTH)
        next == checked_add_1(profile.entry_count)
        entry == [authority |-> authority,
                  title |-> title,
                  message |-> message,
                  timestamp |-> clock,
                  id |-> profile.entry_count,
                  bump |-> pda.bump]
        made == Allocate(journal_entry, entry, authority, space)
    IN  IF ~InitSeedsConstraint(seeds, journal_entry) THEN Rollback("ConstraintSeeds")
        ELSE IF Exists(journal_entry) THEN Rollback("AccountAlreadyInUse")
        ELSE IF ~SeedsConstraint(<<USER_PROFILE_SEED, authority>>, profile.bump, user_profile)
        THEN Rollback("ConstraintSeeds")
        ELSE IF profile.authority /= authority THEN Rollback("ConstraintHasOne")
        ELSE IF ByteLen(title) > MAX_TITLE_LENGTH THEN Rollback("TitleTooLong")
        ELSE IF ByteLen(message) > MAX_MESSAGE_LENGTH THEN Rollback("MessageTooLong")
        ELSE IF ~next.some THEN Rollback("Overflow")
        ELSE IF JournalEntrySerializedLen(title, message) > space
        THEN Rollback("AccountDidNotSerialize")
        ELSE Result("OK",
                    [made.accounts EXCEPT ![user_profile].data.entry_count = next.value],
                    made.wallet)

\* UpdateJournalEntry and update_journal_entry of the first program
First_UpdateJournalEntry(authority, entry_id, journal_entry, title, message) ==
    IF ~Exists(journal_entry) THEN Rollback("AccountNotInitialized")
    ELSE
    LET entry == accounts[journal_entry].data
        seeds == <<JOURNAL_ENTRY_SEED, authority, to_le_bytes(entry_id)>>
    IN  IF ~SeedsConstraint(seeds, entry.bump, journal_entry) THEN Rollback("ConstraintSeeds")
        ELSE IF entry.authority /= authority THEN Rollback("ConstraintHasOne")
        ELSE IF ByteLen(title) > MAX_TITLE_LENGTH THEN Rollback("TitleTooLong")
        ELSE IF ByteLen(message) > MAX_MESSAGE_LENGTH THEN Rollback("MessageTooLong")
        ELSE IF JournalEntrySerializedLen(title, message) > accounts[journal_entry].space
        THEN Rollback("AccountDidNotSerialize")
        ELSE Store(journal_entry,
                   [entry EXCEPT !.title = title,
                                 !.message = message,
                                 !.timestamp = clock])

\* DeleteJournalEntry and delete_journal_entry of the first program
First_DeleteJournalEntry(authority, entry_id, journal_entry) ==
    IF ~Exists(journal_entry) THEN Rollback("AccountNotInitialized")
    ELSE
    LET entry == accounts[journal_entry].data
        seeds == <<JOURNAL_ENTRY_SEED, authority, to_le_bytes(entry_id)>>
    IN  IF ~SeedsConstraint(seeds, entry.bump, journal_entry) THEN Rollback("ConstraintSeeds")
        ELSE IF entry.authority /= authority THEN Rollback("ConstraintHasOne")
        ELSE Close(journal_entry, authority)

----------------------------------------------------------------------------
(* The journal program: project-1/anchor/programs/journal/src/lib.rs       *)
(* Each operator is one instruction: the account validation of its         *)
(* #[derive(Accounts)] struct, then its handler, then the exit.            *)

\* Mutant: init_if_needed, an existing profile is written again.
InitializeUserProfile_IfNeeded(authority, user_profile) ==
    LET pda == find_program_address(UserProfileSeeds(authority))
        data == [authority |-> authority, entry_count |-> U64Zero, bump |-> pda.bump]
    IN  IF ~InitSeedsConstraint(UserProfileSeeds(authority), user_profile)
        THEN Rollback("ConstraintSeeds")
        ELSE IF Exists(user_profile) THEN Store(user_profile, data)
        ELSE Allocate(user_profile, data, authority, 8 + UserProfile_INIT_SPACE)

\* InitializeUserProfile and initialize_user_profile
InitializeUserProfile(authority, user_profile) ==
    LET pda == find_program_address(UserProfileSeeds(authority))
    IN  IF ~InitSeedsConstraint(UserProfileSeeds(authority), user_profile)
        THEN Rollback("ConstraintSeeds")
        ELSE IF Exists(user_profile) THEN Rollback("AccountAlreadyInUse")
        ELSE Allocate(user_profile,
                      [authority |-> authority,
                       entry_count |-> U64Zero,
                       bump |-> pda.bump],
                      authority, 8 + UserProfile_INIT_SPACE)

\* Mutant: the title and the message are stored in each other's field.
JournalEntryFields_Swapped(authority, title, message, unix_timestamp, entry_count, bump) ==
    [authority |-> authority,
     title |-> message,
     message |-> title,
     timestamp |-> unix_timestamp,
     id |-> entry_count,
     bump |-> bump]

\* Mutant: the id is taken after the counter's increment.
JournalEntryFields_IdAfterIncrement(authority, title, message, unix_timestamp, entry_count, bump) ==
    [authority |-> authority,
     title |-> title,
     message |-> message,
     timestamp |-> unix_timestamp,
     id |-> checked_add_1(entry_count).value,
     bump |-> bump]

\* the fields add_journal_entry writes to the new JournalEntry
JournalEntryFields(authority, title, message, unix_timestamp, entry_count, bump) ==
    [authority |-> authority,
     title |-> title,
     message |-> message,
     timestamp |-> unix_timestamp,
     id |-> entry_count,
     bump |-> bump]

\* Mutant: the account that `init` made stays when the handler rejects the
\* title or the message.
AddJournalEntry_InitStays(authority, user_profile, journal_entry, title, message) ==
    IF ~Exists(user_profile) THEN Rollback("AccountNotInitialized")
    ELSE
    LET profile == accounts[user_profile].data
        pda == find_program_address(JournalEntrySeeds(authority, profile.entry_count))
        space == 8 + JournalEntry_INIT_SPACE
        next == checked_add_1(profile.entry_count)
        seeds == JournalEntrySeeds(authority, profile.entry_count)
        entry == JournalEntryFields(authority, title, message, clock,
                                    profile.entry_count, pda.bump)
        made == Allocate(journal_entry, entry, authority, space)
    IN  IF ~InitSeedsConstraint(seeds, journal_entry) THEN Rollback("ConstraintSeeds")
        ELSE IF Exists(journal_entry) THEN Rollback("AccountAlreadyInUse")
        ELSE IF ~SeedsConstraint(UserProfileSeeds(authority), profile.bump, user_profile)
        THEN Rollback("ConstraintSeeds")
        ELSE IF profile.authority /= authority THEN Rollback("ConstraintHasOne")
        ELSE IF CharCount(title) > MAX_TITLE_CHARS
        THEN Result("TitleTooLong", made.accounts, made.wallet)
        ELSE IF CharCount(message) > MAX_MESSAGE_CHARS
        THEN Result("MessageTooLong", made.accounts, made.wallet)
        ELSE IF ~next.some THEN Rollback("Overflow")
        ELSE IF JournalEntrySerializedLen(title, message) > space
        THEN Rollback("AccountDidNotSerialize")
        ELSE Result("OK",
                    [made.accounts EXCEPT ![user_profile].data.entry_count = next.value],
                    made.wallet)

\* Mutant: the message is checked before the title.
AddJournalEntry_MessageFirst(authority, user_profile, journal_entry, title, message) ==
    IF ~Exists(user_profile) THEN Rollback("AccountNotInitialized")
    ELSE
    LET profile == accounts[user_profile].data
        pda == find_program_address(JournalEntrySeeds(authority, profile.entry_count))
        space == 8 + JournalEntry_INIT_SPACE
        next == checked_add_1(profile.entry_count)
        seeds == JournalEntrySeeds(authority, profile.entry_count)
        entry == JournalEntryFields(authority, title, message, clock,
                                    profile.entry_count, pda.bump)
        made == Allocate(journal_entry, entry, authority, space)
    IN  IF ~InitSeedsConstraint(seeds, journal_entry) THEN Rollback("ConstraintSeeds")
        ELSE IF Exists(journal_entry) THEN Rollback("AccountAlreadyInUse")
        ELSE IF ~SeedsConstraint(UserProfileSeeds(authority), profile.bump, user_profile)
        THEN Rollback("ConstraintSeeds")
        ELSE IF profile.authority /= authority THEN Rollback("ConstraintHasOne")
        ELSE IF CharCount(message) > MAX_MESSAGE_CHARS THEN Rollback("MessageTooLong")
        ELSE IF CharCount(title) > MAX_TITLE_CHARS THEN Rollback("TitleTooLong")
        ELSE IF ~next.some THEN Rollback("Overflow")
        ELSE IF JournalEntrySerializedLen(title, message) > space
        THEN Rollback("AccountDidNotSerialize")
        ELSE Result("OK",
                    [made.accounts EXCEPT ![user_profile].data.entry_count = next.value],
                    made.wallet)

\* AddJournalEntry and add_journal_entry
AddJournalEntry(authority, user_profile, journal_entry, title, message) ==
    IF ~Exists(user_profile) THEN Rollback("AccountNotInitialized")
    ELSE
    LET profile == accounts[user_profile].data
        pda == find_program_address(JournalEntrySeeds(authority, profile.entry_count))
        space == 8 + JournalEntry_INIT_SPACE
        next == checked_add_1(profile.entry_count)
        seeds == JournalEntrySeeds(authority, profile.entry_count)
        entry == JournalEntryFields(authority, title, message, clock,
                                    profile.entry_count, pda.bump)
        made == Allocate(journal_entry, entry, authority, space)
    IN  IF ~InitSeedsConstraint(seeds, journal_entry) THEN Rollback("ConstraintSeeds")
        ELSE IF Exists(journal_entry) THEN Rollback("AccountAlreadyInUse")
        ELSE IF ~SeedsConstraint(UserProfileSeeds(authority), profile.bump, user_profile)
        THEN Rollback("ConstraintSeeds")
        ELSE IF profile.authority /= authority THEN Rollback("ConstraintHasOne")
        ELSE IF CharCount(title) > MAX_TITLE_CHARS THEN Rollback("TitleTooLong")
        ELSE IF CharCount(message) > MAX_MESSAGE_CHARS THEN Rollback("MessageTooLong")
        ELSE IF ~next.some THEN Rollback("Overflow")
        ELSE IF JournalEntrySerializedLen(title, message) > space
        THEN Rollback("AccountDidNotSerialize")
        ELSE Result("OK",
                    [made.accounts EXCEPT ![user_profile].data.entry_count = next.value],
                    made.wallet)

\* Mutant: the update also writes the entry's id.
UpdateJournalEntry_ResetsId(authority, entry_id, journal_entry, title, message) ==
    IF ~Exists(journal_entry) THEN Rollback("AccountNotInitialized")
    ELSE
    LET entry == accounts[journal_entry].data
    IN  IF ~SeedsConstraint(JournalEntrySeeds(authority, entry_id), entry.bump, journal_entry)
        THEN Rollback("ConstraintSeeds")
        ELSE IF entry.authority /= authority THEN Rollback("ConstraintHasOne")
        ELSE IF CharCount(title) > MAX_TITLE_CHARS THEN Rollback("TitleTooLong")
        ELSE IF CharCount(message) > MAX_MESSAGE_CHARS THEN Rollback("MessageTooLong")
        ELSE IF JournalEntrySerializedLen(title, message) > accounts[journal_entry].space
        THEN Rollback("AccountDidNotSerialize")
        ELSE Store(journal_entry,
                   [entry EXCEPT !.title = title,
                                 !.message = message,
                                 !.timestamp = clock,
                                 !.id = U64Zero])

\* UpdateJournalEntry and update_journal_entry
UpdateJournalEntry(authority, entry_id, journal_entry, title, message) ==
    IF ~Exists(journal_entry) THEN Rollback("AccountNotInitialized")
    ELSE
    LET entry == accounts[journal_entry].data
    IN  IF ~SeedsConstraint(JournalEntrySeeds(authority, entry_id), entry.bump, journal_entry)
        THEN Rollback("ConstraintSeeds")
        ELSE IF entry.authority /= authority THEN Rollback("ConstraintHasOne")
        ELSE IF CharCount(title) > MAX_TITLE_CHARS THEN Rollback("TitleTooLong")
        ELSE IF CharCount(message) > MAX_MESSAGE_CHARS THEN Rollback("MessageTooLong")
        ELSE IF JournalEntrySerializedLen(title, message) > accounts[journal_entry].space
        THEN Rollback("AccountDidNotSerialize")
        ELSE Store(journal_entry,
                   [entry EXCEPT !.title = title,
                                 !.message = message,
                                 !.timestamp = clock])

\* Mutant: the delete also takes the profile's entry_count back to entry_id.
DeleteJournalEntry_Compacting(authority, entry_id, journal_entry) ==
    IF ~Exists(journal_entry) THEN Rollback("AccountNotInitialized")
    ELSE
    LET entry == accounts[journal_entry].data
        profile == find_program_address(UserProfileSeeds(authority))
        done == Close(journal_entry, authority)
    IN  IF ~SeedsConstraint(JournalEntrySeeds(authority, entry_id), entry.bump, journal_entry)
        THEN Rollback("ConstraintSeeds")
        ELSE IF entry.authority /= authority THEN Rollback("ConstraintHasOne")
        ELSE Result("OK",
                    [done.accounts EXCEPT ![profile].data.entry_count = entry_id],
                    done.wallet)

\* DeleteJournalEntry and delete_journal_entry
DeleteJournalEntry(authority, entry_id, journal_entry) ==
    IF ~Exists(journal_entry) THEN Rollback("AccountNotInitialized")
    ELSE
    LET entry == accounts[journal_entry].data
    IN  IF ~SeedsConstraint(JournalEntrySeeds(authority, entry_id), entry.bump, journal_entry)
        THEN Rollback("ConstraintSeeds")
        ELSE IF entry.authority /= authority THEN Rollback("ConstraintHasOne")
        ELSE Close(journal_entry, authority)

----------------------------------------------------------------------------
(* The pda program: project-3-pdas/programs/new-crud-app/src/lib.rs        *)

\* InitializeUserJournalCounter and initialize_user_journal_counter
InitializeUserJournalCounter(owner, user_journal_counter) ==
    LET pda == find_program_address(UserJournalCounterSeeds(owner))
    IN  IF ~InitSeedsConstraint(UserJournalCounterSeeds(owner), user_journal_counter)
        THEN Rollback("ConstraintSeeds")
        ELSE IF Exists(user_journal_counter) THEN Rollback("AccountAlreadyInUse")
        ELSE Allocate(user_journal_counter,
                      [owner |-> owner,
                       last_entry_index |-> U64Zero,
                       bump |-> pda.bump],
                      owner, 8 + UserJournalCounter_INIT_SPACE)

\* the fields create_journal_entry writes to the new JournalEntryState
JournalEntryStateFields(owner, title, message, current_entry_index, bump) ==
    [owner |-> owner,
     title |-> title,
     message |-> message,
     entry_index |-> current_entry_index,
     bump |-> bump]

\* CreateEntry and create_journal_entry
CreateEntry(owner, user_journal_counter, journal_entry, title, message) ==
    IF ~Exists(user_journal_counter) THEN Rollback("AccountNotInitialized")
    ELSE
    LET counter == accounts[user_journal_counter].data
        current_entry_index == counter.last_entry_index
        pda == find_program_address(JournalEntryStateSeeds(owner, current_entry_index))
        space == 8 + JournalEntryState_INIT_SPACE
        next == checked_add_1(current_entry_index)
        seeds == JournalEntryStateSeeds(owner, current_entry_index)
        entry == JournalEntryStateFields(owner, title, message,
                                         current_entry_index, pda.bump)
        made == Allocate(journal_entry, entry, owner, space)
    IN  IF ~InitSeedsConstraint(seeds, journal_entry) THEN Rollback("ConstraintSeeds")
        ELSE IF Exists(journal_entry) THEN Rollback("AccountAlreadyInUse")
        ELSE IF ~SeedsConstraint(UserJournalCounterSeeds(owner), counter.bump,
                                 user_journal_counter)
        THEN Rollback("ConstraintSeeds")
        ELSE IF ~next.some THEN Rollback("Custom(0)")
        ELSE IF JournalEntryStateSerializedLen(title, message) > space
        THEN Rollback("AccountDidNotSerialize")
        ELSE Result("OK",
                    [made.accounts EXCEPT
                        ![user_journal_counter].data.last_entry_index = next.value],
                    made.wallet)

\* UpdateEntry and update_journal_entry
UpdateEntry(owner, entry_index, journal_entry, new_title, new_message) ==
    IF ~Exists(journal_entry) THEN Rollback("AccountNotInitialized")
    ELSE
    LET entry == accounts[journal_entry].data
    IN  IF ~SeedsConstraint(JournalEntryStateSeeds(owner, entry_index), entry.bump,
                            journal_entry)
        THEN Rollback("ConstraintSeeds")
        ELSE IF JournalEntryStateSerializedLen(new_title, new_message)
                    > accounts[journal_entry].space
        THEN Rollback("AccountDidNotSerialize")
        ELSE Store(journal_entry,
                   [entry EXCEPT !.title = new_title, !.message = new_message])

\* DeleteEntry and delete_journal_entry
DeleteEntry(owner, entry_index, journal_entry) ==
    IF ~Exists(journal_entry) THEN Rollback("AccountNotInitialized")
    ELSE
    LET entry == accounts[journal_entry].data
    IN  IF ~SeedsConstraint(JournalEntryStateSeeds(owner, entry_index), entry.bump,
                            journal_entry)
        THEN Rollback("ConstraintSeeds")
        ELSE Close(journal_entry, owner)

----------------------------------------------------------------------------
(* The two programs seen alike: requests, and the fields of the accounts *)

DoInitialize(o, c) ==
    IF program = "first" THEN First_InitializeUserProfile(o, c)
    ELSE IF program = "journal" THEN InitializeUserProfile(o, c)
    ELSE InitializeUserJournalCounter(o, c)

DoCreate(o, c, e, title, message) ==
    IF program = "first" THEN First_AddJournalEntry(o, c, e, title, message)
    ELSE IF program = "journal" THEN AddJournalEntry(o, c, e, title, message)
    ELSE CreateEntry(o, c, e, title, message)

DoUpdate(o, n, e, title, message) ==
    IF program = "first" THEN First_UpdateJournalEntry(o, n, e, title, message)
    ELSE IF program = "journal" THEN UpdateJournalEntry(o, n, e, title, message)
    ELSE UpdateEntry(o, n, e, title, message)

DoDelete(o, n, e) ==
    IF program = "first" THEN First_DeleteJournalEntry(o, n, e)
    ELSE IF program = "journal" THEN DeleteJournalEntry(o, n, e)
    ELSE DeleteEntry(o, n, e)

CounterOf(o) == CounterAddress(program, o)

EntryOf(o, n) == EntryAddress(program, o, n)

\* the counter's value in the accounts a, where the owner's counter exists
NextSequence(a, o) ==
    IF program = "pda" THEN a[CounterOf(o)].data.last_entry_index
    ELSE a[CounterOf(o)].data.entry_count

CounterOwner(data) == IF program = "pda" THEN data.owner ELSE data.authority

EntryOwner(data) == IF program = "pda" THEN data.owner ELSE data.authority

EntrySequence(data) == IF program = "pda" THEN data.entry_index ELSE data.id

----------------------------------------------------------------------------
(* The state machine *)

\* the sequence numbers and the addresses a client may name in a request
Seqs == Window(origin, MaxCreates - 1)

CounterKeys == { CounterAddress(program, o) : o \in Owners }

EntryKeys == { EntryAddress(program, o, n) : o \in Owners, n \in Seqs }

\* the addresses of the entries that exist
LiveEntries == DOMAIN accounts \ CounterKeys

RECURSIVE Sum(_, _)
Sum(f, S) ==
    IF S = {} THEN 0
    ELSE LET x == CHOOSE y \in S : TRUE IN f[x] + Sum(f, S \ {x})

\* the model stops creating after MaxCreates successful creates
MayCreate(r) == r.err = "OK" => Sum(created, Owners) < MaxCreates

Init ==
    /\ program \in Programs
    /\ accounts = [k \in {} |-> 0]
    /\ wallet = [o \in Owners |-> 0]
    /\ clock = 0
    /\ origin = U64Zero
    /\ created = [o \in Owners |-> 0]
    /\ closed = {}

\* the unix_timestamp of the Clock sysvar moves on between transactions
Tick ==
    /\ clock < MaxTime
    /\ clock' = clock + 1
    /\ UNCHANGED <<program, accounts, wallet, origin, created, closed>>

\* The transaction of an instruction with the result r.  A failed
\* transaction changes nothing.
Initialized(r) ==
    /\ accounts' = r.accounts
    /\ wallet' = r.wallet
    /\ UNCHANGED <<program, clock, origin, created, closed>>

Created(signer, r) ==
    /\ MayCreate(r)
    /\ accounts' = r.accounts
    /\ wallet' = r.wallet
    /\ created' = IF r.err = "OK" THEN [created EXCEPT ![signer] = @ + 1] ELSE created
    /\ UNCHANGED <<program, clock, origin, closed>>

Updated(r) ==
    /\ accounts' = r.accounts
    /\ wallet' = r.wallet
    /\ UNCHANGED <<program, clock, origin, created, closed>>

Deleted(key, r) ==
    /\ accounts' = r.accounts
    /\ wallet' = r.wallet
    /\ closed' = IF r.err = "OK"
                  THEN closed \cup {[key |-> key,
                                     owner |-> EntryOwner(accounts[key].data),
                                     sequence |-> EntrySequence(accounts[key].data)]}
                  ELSE closed
    /\ UNCHANGED <<program, clock, origin, created>>

first_initialize_user_profile(authority, user_profile) ==
    /\ program = "first"
    /\ Initialized(First_InitializeUserProfile(authority, user_profile))

first_add_journal_entry(authority, user_profile, journal_entry, title, message) ==
    /\ program = "first"
    /\ Created(authority,
            First_AddJournalEntry(authority, user_profile, journal_entry, title, message))

first_update_journal_entry(authority, entry_id, journal_entry, title, message) ==
    /\ program = "first"
    /\ Updated(First_UpdateJournalEntry(authority, entry_id, journal_entry, title, message))

first_delete_journal_entry(authority, entry_id, journal_entry) ==
    /\ program = "first"
    /\ Deleted(journal_entry,
            First_DeleteJournalEntry(authority, entry_id, journal_entry))

initialize_user_profile(authority, user_profile) ==
    /\ program = "journal"
    /\ Initialized(InitializeUserProfile(authority, user_profile))

add_journal_entry(authority, user_profile, journal_entry, title, message) ==
    /\ program = "journal"
    /\ Created(authority,
            AddJournalEntry(authority, user_profile, journal_entry, title, message))

update_journal_entry(authority, entry_id, journal_entry, title, message) ==
    /\ program = "journal"
    /\ Updated(UpdateJournalEntry(authority, entry_id, journal_entry, title, message))

delete_journal_entry(authority, entry_id, journal_entry) ==
    /\ program = "journal"
    /\ Deleted(journal_entry,
            DeleteJournalEntry(authority, entry_id, journal_entry))

initialize_user_journal_counter(owner, user_journal_counter) ==
    /\ program = "pda"
    /\ Initialized(InitializeUserJournalCounter(owner, user_journal_counter))

create_journal_entry(owner, user_journal_counter, journal_entry, title, message) ==
    /\ program = "pda"
    /\ Created(owner,
            CreateEntry(owner, user_journal_counter, journal_entry, title, message))

pda_update_journal_entry(owner, entry_index, journal_entry, new_title, new_message) ==
    /\ program = "pda"
    /\ Updated(UpdateEntry(owner, entry_index, journal_entry, new_title, new_message))

pda_delete_journal_entry(owner, entry_index, journal_entry) ==
    /\ program = "pda"
    /\ Deleted(journal_entry,
            DeleteEntry(owner, entry_index, journal_entry))

\* A request names its signer, its accounts and its arguments.  The client
\* derives the accounts: the counter from an owner c, the entry to create
\* from c and a sequence number m, the entry to update or to delete from an
\* owner p and the entry_id of the request.
Next ==
    \/ Tick
    \/ /\ program = "first"
       /\ \E o \in Owners, c \in Owners :
             first_initialize_user_profile(o, CounterAddress(program, c))
    \/ /\ program = "first"
       /\ \E o \in Owners, c \in Owners, m \in Seqs, x \in SentTexts :
             first_add_journal_entry(o, CounterAddress(program, c),
                                     EntryAddress(program, c, m), x[1], x[2])
    \/ /\ program = "first"
       /\ \E o \in Owners, n \in Seqs, p \in Owners, x \in SentTexts :
             first_update_journal_entry(o, n, EntryAddress(program, p, n), x[1], x[2])
    \/ /\ program = "first"
       /\ \E o \in Owners, n \in Seqs, p \in Owners :
             first_delete_journal_entry(o, n, EntryAddress(program, p, n))
    \/ /\ program = "journal"
       /\ \E o \in Owners, c \in Owners :
             initialize_user_profile(o, CounterAddress(program, c))
    \/ /\ program = "journal"
       /\ \E o \in Owners, c \in Owners, m \in Seqs, x \in SentTexts :
             add_journal_entry(o, CounterAddress(program, c),
                               EntryAddress(program, c, m), x[1], x[2])
    \/ /\ program = "journal"
       /\ \E o \in Owners, n \in Seqs, p \in Owners, x \in SentTexts :
             update_journal_entry(o, n, EntryAddress(program, p, n), x[1], x[2])
    \/ /\ program = "journal"
       /\ \E o \in Owners, n \in Seqs, p \in Owners :
             delete_journal_entry(o, n, EntryAddress(program, p, n))
    \/ /\ program = "pda"
       /\ \E o \in Owners, c \in Owners :
             initialize_user_journal_counter(o, CounterAddress(program, c))
    \/ /\ program = "pda"
       /\ \E o \in Owners, c \in Owners, m \in Seqs, x \in SentTexts :
             create_journal_entry(o, CounterAddress(program, c),
                                  EntryAddress(program, c, m), x[1], x[2])
    \/ /\ program = "pda"
       /\ \E o \in Owners, n \in Seqs, p \in Owners, x \in SentTexts :
             pda_update_journal_entry(o, n, EntryAddress(program, p, n), x[1], x[2])
    \/ /\ program = "pda"
       /\ \E o \in Owners, n \in Seqs, p \in Owners :
             pda_delete_journal_entry(o, n, EntryAddress(program, p, n))

Spec == Init /\ [][Next]_vars

\* A deployment that has run for long: every owner's counter is two short of
\* u64::MAX, and every entry created so far has been closed.
InitAged ==
    /\ program \in Programs
    /\ origin = [U64Max EXCEPT ![1] = @ - 2]
    /\ accounts =
          [k \in CounterKeys |->
              [data |-> IF program = "pda"
                        THEN [owner |-> k.seeds[2],
                              last_entry_index |-> origin,
                              bump |-> k.bump]
                        ELSE [authority |-> k.seeds[2],
                              entry_count |-> origin,
                              bump |-> k.bump],
               lamports |-> RentExempt(8 + UserProfile_INIT_SPACE),
               space |-> 8 + UserProfile_INIT_SPACE]]
    /\ wallet = [o \in Owners |-> 0]
    /\ clock = 0
    /\ created = [o \in Owners |-> 0]
    /\ closed = {}

SpecAged == InitAged /\ [][Next]_vars

----------------------------------------------------------------------------
(* C1 *)

\* C1: a successful create of owner o, the (n+1)-th one for o, finds the
\* counter of o at n, and adds exactly one account: the entry at the address
\* of (o, n), whose stored sequence number is n and whose stored owner is o.
C1_SequenceIsCreateCount ==
    [][\A o \in Owners :
          created'[o] = created[o] + 1 =>
              LET n == FromNat(created[o])
                  key == EntryOf(o, n)
              IN  /\ Exists(CounterOf(o))
                  /\ NextSequence(accounts, o) = n
                  /\ DOMAIN accounts' = DOMAIN accounts \cup {key}
                  /\ ~Exists(key)
                  /\ EntrySequence(accounts'[key].data) = n
                  /\ EntryOwner(accounts'[key].data) = o]_vars

\* an owner's second create has stored the entry of sequence number 1
C1_Witness ==
    \E o \in Owners :
        /\ created[o] = 2
        /\ Exists(EntryOf(o, FromNat(1)))
        /\ EntrySequence(accounts[EntryOf(o, FromNat(1))].data) = FromNat(1)

----------------------------------------------------------------------------
(* C2 *)

\* the sequence numbers a request may name, and the one after them
AnySeqs == Window(origin, MaxCreates)

\* a title and a message that both programs store
FitText == <<Str(MAX_TITLE_CHARS, 1), Str(MAX_MESSAGE_CHARS, 1)>>

\* C2: an entry that was deleted is never live again: its address, the one
\* of its owner and sequence number, holds no account, the owner's counter is
\* beyond its sequence number, and no create request that names its address
\* succeeds.
C2_NoReuse ==
    \A d \in closed :
        /\ d.key = EntryOf(d.owner, d.sequence)
        /\ ~Exists(d.key)
        /\ Exists(CounterOf(d.owner))
        /\ U64Less(d.sequence, NextSequence(accounts, d.owner))
        /\ \A o \in Owners, c \in Owners, x \in Texts :
              DoCreate(o, CounterOf(c), d.key, x[1], x[2]).err /= "OK"

\* entries 0 and 1 were created, entry 0 was deleted, and the next create is
\* the one of sequence number 2
C2_Witness ==
    \E o \in Owners :
        LET new == EntryOf(o, FromNat(2))
            r == DoCreate(o, CounterOf(o), new, FitText[1], FitText[2])
        IN  /\ [key |-> EntryOf(o, U64Zero), owner |-> o, sequence |-> U64Zero] \in closed
            /\ Exists(EntryOf(o, FromNat(1)))
            /\ r.err = "OK"
            /\ EntrySequence(r.accounts[new].data) = FromNat(2)

----------------------------------------------------------------------------
(* C3 *)

\* C3 as stated: an update or a delete that b signs for an entry whose stored
\* owner is not b fails with ConstraintHasOne, the error of the check of the
\* stored owner, and changes no account.
C3_Original ==
    \A b \in Owners, n \in AnySeqs, x \in Texts :
        \A k \in LiveEntries :
            EntryOwner(accounts[k].data) /= b =>
                /\ DoUpdate(b, n, k, x[1], x[2]) = Rollback("ConstraintHasOne")
                /\ DoDelete(b, n, k) = Rollback("ConstraintHasOne")

\* C3, amended: an update or a delete that b signs for an entry whose stored owner is
\* not b fails with ConstraintSeeds, the address derived from b not being the
\* entry's, and changes no account.
C3_ForeignEntryRejected ==
    \A b \in Owners, n \in AnySeqs :
        \A k \in LiveEntries :
            EntryOwner(accounts[k].data) /= b =>
                /\ \A x \in Texts :
                      DoUpdate(b, n, k, x[1], x[2]) = Rollback("ConstraintSeeds")
                /\ DoDelete(b, n, k) = Rollback("ConstraintSeeds")

\* A has created entry 0 and B's update of it, under entry_id 0, is rejected
C3_Witness ==
    LET k == EntryOf("A", U64Zero)
    IN  /\ Exists(k)
        /\ EntryOwner(accounts[k].data) = "A"
        /\ DoUpdate("B", U64Zero, k, FitText[1], FitText[2]).err = "ConstraintSeeds"

----------------------------------------------------------------------------
(* C4 *)

\* C4: initialize for owner o succeeds exactly when o has no counter, and
\* then makes a counter of o at 0; when o has one, it fails with
\* AccountAlreadyInUse and changes nothing.
C4_InitializeOnce ==
    \A o \in Owners :
        LET r == DoInitialize(o, CounterOf(o))
        IN  IF Exists(CounterOf(o))
            THEN r = Rollback("AccountAlreadyInUse")
            ELSE /\ r.err = "OK"
                 /\ DOMAIN r.accounts = DOMAIN accounts \cup {CounterOf(o)}
                 /\ NextSequence(r.accounts, o) = U64Zero
                 /\ CounterOwner(r.accounts[CounterOf(o)].data) = o

\* initialize is rejected for an owner whose counter has moved on from 0
C4_Witness ==
    \E o \in Owners :
        /\ Exists(CounterOf(o))
        /\ NextSequence(accounts, o) = FromNat(2)
        /\ DoInitialize(o, CounterOf(o)).err = "AccountAlreadyInUse"

----------------------------------------------------------------------------
(* C5 *)

\* the error of the counter's overflow: JournalError::Overflow, and in the pda
\* program ProgramError::Custom(0)
OverflowError == IF program = "pda" THEN "Custom(0)" ELSE "Overflow"

\* the texts within the bounds of their character counts
WithinBounds(x) ==
    CharCount(x[1]) <= MAX_TITLE_CHARS /\ CharCount(x[2]) <= MAX_MESSAGE_CHARS

\* C5: with the counter of o at u64::MAX, no create of o succeeds or changes
\* an account: there is no entry at (o, u64::MAX) and the counter stays; a
\* create whose texts are within their bounds fails with the overflow error.
C5_OverflowRejected ==
    \A o \in Owners :
        (Exists(CounterOf(o)) /\ NextSequence(accounts, o) = U64Max) =>
            /\ ~Exists(EntryOf(o, U64Max))
            /\ \A x \in Texts :
                  LET r == DoCreate(o, CounterOf(o), EntryOf(o, U64Max), x[1], x[2])
                  IN  /\ r.err /= "OK"
                      /\ r.accounts = accounts
                      /\ r.wallet = wallet
                      /\ WithinBounds(x) => r.err = OverflowError

\* a counter has reached u64::MAX and a create has failed on the overflow
C5_Witness ==
    \E o \in Owners :
        /\ Exists(CounterOf(o))
        /\ NextSequence(accounts, o) = U64Max
        /\ DoCreate(o, CounterOf(o), EntryOf(o, U64Max), FitText[1], FitText[2]).err
               = OverflowError

----------------------------------------------------------------------------
(* C6 *)

\* the addresses of the entries that were deleted
ClosedKeys == { d.key : d \in closed }

\* C6: an update or a delete of an entry that was deleted, or that was never
\* created, fails with AccountNotInitialized and changes nothing, whoever
\* signs it and whatever its arguments.
C6_AbsentEntryNotFound ==
    \A k \in { EntryOf(p, m) : p \in Owners, m \in AnySeqs } :
        (k \in ClosedKeys \/ ~Exists(k)) =>
            \A o \in Owners, n \in AnySeqs :
                /\ \A x \in Texts :
                      DoUpdate(o, n, k, x[1], x[2]) = Rollback("AccountNotInitialized")
                /\ DoDelete(o, n, k) = Rollback("AccountNotInitialized")

\* an owner has a deleted entry 0, a live entry 1 and no entry 2 yet
C6_Witness ==
    \E o \in Owners :
        /\ EntryOf(o, U64Zero) \in ClosedKeys
        /\ Exists(EntryOf(o, FromNat(1)))
        /\ ~Exists(EntryOf(o, FromNat(2)))
        /\ DoUpdate(o, U64Zero, EntryOf(o, U64Zero), FitText[1], FitText[2]).err
               = "AccountNotInitialized"
        /\ DoDelete(o, FromNat(2), EntryOf(o, FromNat(2))).err = "AccountNotInitialized"

----------------------------------------------------------------------------
(* C7 *)

\* the outcome the length bounds call for: the first text over its bound
\* names the error, and texts within their bounds are accepted
LengthVerdict(x) ==
    IF CharCount(x[1]) > MAX_TITLE_CHARS THEN "TitleTooLong"
    ELSE IF CharCount(x[2]) > MAX_MESSAGE_CHARS THEN "MessageTooLong"
    ELSE "OK"

\* C7: an owner's create at the address of its next sequence number, and its
\* update of an entry it has, end as the bounds on the character counts call
\* for: accepted up to 50 and 280 characters, TitleTooLong from 51 and
\* MessageTooLong from 281, whatever the bytes of a character.  The first
\* program, whose bounds are 100 and 500 bytes, is left aside.
C7_Original ==
    \A o \in Owners, x \in Texts :
        program \in {"journal", "pda"} =>
        /\ (Exists(CounterOf(o)) /\ NextSequence(accounts, o) /= U64Max) =>
              DoCreate(o, CounterOf(o), EntryOf(o, NextSequence(accounts, o)),
                       x[1], x[2]).err = LengthVerdict(x)
        /\ \A n \in AnySeqs :
              Exists(EntryOf(o, n)) =>
                  DoUpdate(o, n, EntryOf(o, n), x[1], x[2]).err = LengthVerdict(x)

----------------------------------------------------------------------------
(* C8 *)

\* C8: a successful create of o with title t and message m, at the address
\* of o and the counter's value n, leaves at that address an entry whose
\* title is t, whose message is m, whose owner is o and whose sequence number
\* is n.
C8_CreateRoundTrip ==
    \A o \in Owners, x \in Texts :
        Exists(CounterOf(o)) =>
            LET n == NextSequence(accounts, o)
                r == DoCreate(o, CounterOf(o), EntryOf(o, n), x[1], x[2])
                got == r.accounts[find_program_address(
                           IF program = "pda" THEN JournalEntryStateSeeds(o, n)
                           ELSE JournalEntrySeeds(o, n))].data
            IN  r.err = "OK" =>
                    /\ got.title = x[1]
                    /\ got.message = x[2]
                    /\ EntryOwner(got) = o
                    /\ EntrySequence(got) = n

\* after one create of o, a second one stores a title of two-byte characters
\* and an empty message as they were given
C8_Witness ==
    \E o \in Owners :
        LET t == Str(MAX_TITLE_CHARS, 2)
            m == Str(0, 1)
            r == DoCreate(o, CounterOf(o), EntryOf(o, FromNat(1)), t, m)
        IN  /\ created[o] = 1
            /\ r.err = "OK"
            /\ r.accounts[EntryOf(o, FromNat(1))].data.title = t
            /\ r.accounts[EntryOf(o, FromNat(1))].data.message = m

----------------------------------------------------------------------------
(* C9 *)

\* C9: every entry is at the address of its stored owner and sequence number,
\* which is below the owner's counter, so no two entries of an owner have the
\* same sequence number; and a create of o that names the entry of a sequence
\* number other than the counter's value, as one prepared before another
\* create of o went through does, fails with ConstraintSeeds and changes
\* nothing.
C9_CreatesSerialized ==
    /\ \A k \in LiveEntries :
          LET d == accounts[k].data
          IN  /\ k = EntryOf(EntryOwner(d), EntrySequence(d))
              /\ Exists(CounterOf(EntryOwner(d)))
              /\ U64Less(EntrySequence(d), NextSequence(accounts, EntryOwner(d)))
    /\ \A o \in Owners, n \in AnySeqs, x \in Texts :
          (Exists(CounterOf(o)) /\ n /= NextSequence(accounts, o)) =>
              DoCreate(o, CounterOf(o), EntryOf(o, n), x[1], x[2])
                  = Rollback("ConstraintSeeds")

\* of two creates prepared at counter 0 one went through: the other is now
\* rejected, and prepared again at counter 1 it is accepted
C9_Witness ==
    \E o \in Owners :
        /\ Exists(EntryOf(o, U64Zero))
        /\ NextSequence(accounts, o) = FromNat(1)
        /\ DoCreate(o, CounterOf(o), EntryOf(o, U64Zero), FitText[1], FitText[2]).err
               = "ConstraintSeeds"
        /\ DoCreate(o, CounterOf(o), EntryOf(o, FromNat(1)), FitText[1], FitText[2]).err
               = "OK"

----------------------------------------------------------------------------
(* C10 *)

\* C10: a counter starts at 0 and stays; a step leaves the counter of o as it
\* is or adds 1 to it, and adds 1 exactly when the step is a successful create
\* of o.
C10_CounterMonotone ==
    [][\A o \in Owners :
          /\ (~Exists(CounterOf(o)) /\ CounterOf(o) \in DOMAIN accounts') =>
                /\ NextSequence(accounts', o) = U64Zero
                /\ created'[o] = created[o]
          /\ Exists(CounterOf(o)) =>
                /\ CounterOf(o) \in DOMAIN accounts'
                /\ \/ /\ NextSequence(accounts', o) = NextSequence(accounts, o)
                      /\ created'[o] = created[o]
                   \/ /\ Some(NextSequence(accounts', o))
                             = checked_add_1(NextSequence(accounts, o))
                      /\ created'[o] = created[o] + 1
          /\ ~Exists(CounterOf(o)) => created'[o] = created[o]]_vars

\* a counter has reached 2 and an entry of its owner was deleted
C10_Witness ==
    \E o \in Owners :
        /\ Exists(CounterOf(o))
        /\ NextSequence(accounts, o) = FromNat(2)
        /\ \E d \in closed : d.owner = o

----------------------------------------------------------------------------
(* C11 *)

\* C11: a successful delete that o signs for entry_id n removes the account
\* at the address of (o, n), whose stored owner is o and whose stored sequence
\* number is n, and no other; every account that stays, the counters among
\* them, keeps its data, its lamports and its space.
C11_DeleteFrame ==
    \A o \in Owners, p \in Owners, n \in AnySeqs :
        LET e == EntryOf(p, n)
            r == DoDelete(o, n, e)
        IN  r.err = "OK" =>
                /\ e = EntryOf(o, n)
                /\ Exists(e)
                /\ EntryOwner(accounts[e].data) = o
                /\ EntrySequence(accounts[e].data) = n
                /\ DOMAIN r.accounts = DOMAIN accounts \ {e}
                /\ \A k \in DOMAIN r.accounts : r.accounts[k] = accounts[k]

\* an owner whose counter is at 2 has deleted entry 0, entry 1 is live, and
\* the delete of entry 1 is accepted
C11_Witness ==
    \E o \in Owners :
        /\ [key |-> EntryOf(o, U64Zero), owner |-> o, sequence |-> U64Zero] \in closed
        /\ NextSequence(accounts, o) = FromNat(2)
        /\ Exists(EntryOf(o, FromNat(1)))
        /\ DoDelete(o, FromNat(1), EntryOf(o, FromNat(1))).err = "OK"

----------------------------------------------------------------------------
(* C12 *)

\* C12: a successful update that o signs for entry_id n writes the entry at
\* the address of (o, n) and nothing else: the entry keeps its owner, its
\* sequence number, its bump, its lamports and its space, its title and its
\* message are the given ones, every other account is as it was, and no
\* account is added or removed.
C12_UpdateFrame ==
    \A o \in Owners, p \in Owners, n \in AnySeqs, x \in Texts :
        LET e == EntryOf(p, n)
            r == DoUpdate(o, n, e, x[1], x[2])
        IN  r.err = "OK" =>
                /\ e = EntryOf(o, n)
                /\ DOMAIN r.accounts = DOMAIN accounts
                /\ \A k \in DOMAIN accounts \ {e} : r.accounts[k] = accounts[k]
                /\ r.wallet = wallet
                /\ EntryOwner(r.accounts[e].data) = EntryOwner(accounts[e].data)
                /\ EntrySequence(r.accounts[e].data) = EntrySequence(accounts[e].data)
                /\ r.accounts[e].data.bump = accounts[e].data.bump
                /\ r.accounts[e].lamports = accounts[e].lamports
                /\ r.accounts[e].space = accounts[e].space
                /\ r.accounts[e].data.title = x[1]
                /\ r.accounts[e].data.message = x[2]

\* an owner with two entries updates entry 1 to a title it does not have
C12_Witness ==
    \E o \in Owners :
        LET e == EntryOf(o, FromNat(1))
        IN  /\ Exists(EntryOf(o, U64Zero))
            /\ Exists(e)
            /\ accounts[e].data.title /= Str(MAX_TITLE_CHARS, 2)
            /\ DoUpdate(o, FromNat(1), e, Str(MAX_TITLE_CHARS, 2), Str(0, 1)).err = "OK"

----------------------------------------------------------------------------
(* C13 *)

\* JournalError::TitleTooLong and JournalError::MessageTooLong
ValidationErrors == {"TitleTooLong", "MessageTooLong"}

\* C13: a create of o at the address of its counter's value that ends with
\* TitleTooLong or MessageTooLong leaves every account and every wallet as it
\* was: no entry is at that address, the counter has the same value, and a
\* create with a title and a message within the bounds is accepted there with
\* the same sequence number.  An update of an entry of o that ends with one of
\* the two errors leaves every account, the entry's title, message and
\* timestamp among them, as it was.
C13_RejectedTextNoMutation ==
    \A o \in Owners :
        /\ Exists(CounterOf(o)) =>
              LET n == NextSequence(accounts, o)
                  e == EntryOf(o, n)
                  fit == DoCreate(o, CounterOf(o), e, FitText[1], FitText[2])
              IN  \A x \in Texts :
                      LET r == DoCreate(o, CounterOf(o), e, x[1], x[2])
                      IN  r.err \in ValidationErrors =>
                              /\ r.accounts = accounts
                              /\ r.wallet = wallet
                              /\ ~Exists(e)
                              /\ fit.err = "OK"
                              /\ EntrySequence(fit.accounts[e].data) = n
        /\ \A n \in AnySeqs :
              Exists(EntryOf(o, n)) =>
                  \A x \in Texts :
                      LET r == DoUpdate(o, n, EntryOf(o, n), x[1], x[2])
                      IN  r.err \in ValidationErrors =>
                              /\ r.accounts = accounts
                              /\ r.wallet = wallet

\* an owner with entry 0 and the counter at 1: a create with a title over the
\* bound ends with TitleTooLong, an update of entry 0 with a message over the
\* bound ends with MessageTooLong
C13_Witness ==
    \E o \in Owners :
        LET long == Str(MAX_TITLE_CHARS + 1, 2)
            wide == Str(MAX_MESSAGE_CHARS + 1, 2)
        IN  /\ Exists(EntryOf(o, U64Zero))
            /\ NextSequence(accounts, o) = FromNat(1)
            /\ DoCreate(o, CounterOf(o), EntryOf(o, FromNat(1)), long, wide).err
                   = "TitleTooLong"
            /\ DoUpdate(o, U64Zero, EntryOf(o, U64Zero), FitText[1], wide).err
                   = "MessageTooLong"

----------------------------------------------------------------------------
(* C14 *)

\* C14: a create that o signs, whichever counter and whichever entry address
\* it names, is accepted only with the counter of o, which exists and has o as
\* its stored owner, and only for an entry of o; while o has no counter every
\* create that o signs fails and changes nothing, with AccountNotInitialized
\* when it names the counter of o.  Every entry's owner has a counter and has
\* had a create accepted.
C14_CreateNeedsOwnCounter ==
    /\ \A o \in Owners, c \in Owners, p \in Owners, m \in AnySeqs :
          LET e == EntryOf(p, m)
              r == DoCreate(o, CounterOf(c), e, FitText[1], FitText[2])
          IN  /\ r.err = "OK" =>
                    /\ c = o
                    /\ p = o
                    /\ Exists(CounterOf(o))
                    /\ CounterOwner(accounts[CounterOf(o)].data) = o
                    /\ EntryOwner(r.accounts[e].data) = o
              /\ ~Exists(CounterOf(o)) =>
                    /\ r.err /= "OK"
                    /\ r.accounts = accounts
                    /\ r.wallet = wallet
                    /\ c = o => r.err = "AccountNotInitialized"
    /\ \A k \in LiveEntries :
          /\ Exists(CounterOf(EntryOwner(accounts[k].data)))
          /\ created[EntryOwner(accounts[k].data)] >= 1

\* A has a counter at 1 and an entry, B has no counter: B's create fails with
\* its own counter, which does not exist, and with A's
C14_Witness ==
    /\ Exists(CounterOf("A"))
    /\ ~Exists(CounterOf("B"))
    /\ Exists(EntryOf("A", U64Zero))
    /\ DoCreate("B", CounterOf("B"), EntryOf("B", U64Zero), FitText[1], FitText[2]).err
           = "AccountNotInitialized"
    /\ DoCreate("B", CounterOf("A"), EntryOf("B", FromNat(1)), FitText[1], FitText[2]).err
           = "ConstraintSeeds"

----------------------------------------------------------------------------
(* C15 *)

\* the lamports of the accounts of owner o: its counter and its entries
RECURSIVE LamportsOf(_, _)
LamportsOf(o, keys) ==
    IF keys = {} THEN 0
    ELSE LET k == CHOOSE y \in keys : TRUE
             own == IF k \in CounterKeys THEN CounterOwner(accounts[k].data)
                    ELSE EntryOwner(accounts[k].data)
         IN  (IF own = o THEN accounts[k].lamports ELSE 0) + LamportsOf(o, keys \ {k})

\* C15: a successful delete that o signs for the entry at e adds to the wallet
\* of o the lamports the entry held, which are more than none, and to no other
\* wallet; the entry's account is gone and every other account keeps its
\* lamports.  What an owner's wallet has paid is what its accounts hold.
C15_DeleteReturnsLamports ==
    /\ \A o \in Owners, n \in AnySeqs :
          LET e == EntryOf(o, n)
              r == DoDelete(o, n, e)
          IN  r.err = "OK" =>
                  /\ accounts[e].lamports > 0
                  /\ r.wallet = [wallet EXCEPT ![o] = @ + accounts[e].lamports]
                  /\ e \notin DOMAIN r.accounts
                  /\ \A k \in DOMAIN r.accounts :
                        r.accounts[k].lamports = accounts[k].lamports
    /\ \A o \in Owners : wallet[o] + LamportsOf(o, DOMAIN accounts) = 0

\* an owner has created and deleted an entry and has no entry left: its wallet
\* has paid for the counter only
C15_Witness ==
    \E o \in Owners :
        /\ \E d \in closed : d.owner = o
        /\ \A k \in LiveEntries : EntryOwner(accounts[k].data) /= o
        /\ Exists(CounterOf(o))
        /\ wallet[o] = 0 - accounts[CounterOf(o)].lamports

----------------------------------------------------------------------------
(* C16 *)

\* C16: in the revised journal program and in the pda program every entry
\* that exists has a title of at most 50 characters and a message of at most
\* 280 characters.
C16_Original ==
    program \in {"journal", "pda"} =>
        \A k \in LiveEntries :
            /\ CharCount(accounts[k].data.title) <= MAX_TITLE_CHARS
            /\ CharCount(accounts[k].data.message) <= MAX_MESSAGE_CHARS

----------------------------------------------------------------------------
(* C17 *)

\* C17: in the revised journal program a title and a message that pass the
\* length checks serialize into the space the entry was created with, so that
\* the create of an owner at the address of its counter's value, and the
\* update of an entry of its own, are accepted with them.
C17_Original ==
    program = "journal" =>
        \A o \in Owners, x \in Texts :
            WithinBounds(x) =>
                /\ Exists(CounterOf(o)) =>
                      /\ JournalEntrySerializedLen(x[1], x[2])
                             <= 8 + JournalEntry_INIT_SPACE
                      /\ DoCreate(o, CounterOf(o), EntryOf(o, NextSequence(accounts, o)),
                                  x[1], x[2]).err /= "AccountDidNotSerialize"
                /\ \A n \in AnySeqs :
                      Exists(EntryOf(o, n)) =>
                          DoUpdate(o, n, EntryOf(o, n), x[1], x[2]).err
                              /= "AccountDidNotSerialize"

----------------------------------------------------------------------------
(* C18 *)

\* whether the entry has a timestamp field
HasTimestamp(data) == "timestamp" \in DOMAIN data

\* C18: every entry has a timestamp; the create of an owner at the address of
\* its counter's value stores the clock's unix_timestamp in the new entry, an
\* accepted update of an entry stores the clock's unix_timestamp in it, and an
\* accepted delete leaves the timestamps of the entries that stay.
C18_Original ==
    /\ \A k \in LiveEntries : HasTimestamp(accounts[k].data)
    /\ \A o \in Owners :
          Exists(CounterOf(o)) =>
              LET e == EntryOf(o, NextSequence(accounts, o))
                  r == DoCreate(o, CounterOf(o), e, FitText[1], FitText[2])
              IN  r.err = "OK" =>
                      /\ HasTimestamp(r.accounts[e].data)
                      /\ r.accounts[e].data.timestamp = clock
    /\ \A o \in Owners, n \in AnySeqs :
          LET e == EntryOf(o, n)
              u == DoUpdate(o, n, e, FitText[1], FitText[2])
              d == DoDelete(o, n, e)
          IN  /\ u.err = "OK" =>
                    /\ HasTimestamp(u.accounts[e].data)
                    /\ u.accounts[e].data.timestamp = clock
              /\ d.err = "OK" =>
                    \A k \in DOMAIN d.accounts : d.accounts[k] = accounts[k]

----------------------------------------------------------------------------
(* C19 *)

\* every account stores the bump of its own address
StoredBumps == \A k \in DOMAIN accounts : accounts[k].data.bump = k.bump

\* C19 as stated: an update or a delete whose entry is not at the address of
\* the signer and the entry_id, and a create whose counter is not at the
\* address of the signer, fail with ConstraintSeeds and change nothing.
C19_Original ==
    /\ StoredBumps
    /\ \A o \in Owners, n \in AnySeqs :
          \A k \in LiveEntries :
              k /= EntryOf(o, n) =>
                  /\ \A x \in SentTexts :
                        DoUpdate(o, n, k, x[1], x[2]) = Rollback("ConstraintSeeds")
                  /\ DoDelete(o, n, k) = Rollback("ConstraintSeeds")
    /\ \A o \in Owners, c \in Owners :
          (c /= o /\ Exists(CounterOf(c))) =>
              \A p \in Owners, m \in AnySeqs :
                  DoCreate(o, CounterOf(c), EntryOf(p, m), FitText[1], FitText[2])
                      = Rollback("ConstraintSeeds")

\* C19, amended: an update or a delete whose entry is not at the address of
\* the signer and the entry_id fails with ConstraintSeeds and changes nothing.
\* A create whose counter exists and is not at the address of the signer
\* changes nothing and fails: with AccountAlreadyInUse when it names, as the
\* entry to create, the address of the signer and that counter's value and an
\* entry is there, and with ConstraintSeeds otherwise.
C19_WrongAddressRejected ==
    /\ StoredBumps
    /\ \A o \in Owners, n \in AnySeqs :
          \A k \in LiveEntries :
              k /= EntryOf(o, n) =>
                  /\ \A x \in SentTexts :
                        DoUpdate(o, n, k, x[1], x[2]) = Rollback("ConstraintSeeds")
                  /\ DoDelete(o, n, k) = Rollback("ConstraintSeeds")
    /\ \A o \in Owners, c \in Owners :
          (c /= o /\ Exists(CounterOf(c))) =>
              \A p \in Owners, m \in AnySeqs :
                  LET e == EntryOf(p, m)
                      taken == e = EntryOf(o, NextSequence(accounts, c)) /\ Exists(e)
                  IN  DoCreate(o, CounterOf(c), e, FitText[1], FitText[2])
                          = Rollback(IF taken THEN "AccountAlreadyInUse"
                                     ELSE "ConstraintSeeds")

\* B has entry 0 and A's counter is at 0: B's update of its entry under
\* entry_id 1 and B's create with A's counter fail, the create that names B's
\* entry 0 with AccountAlreadyInUse
C19_Witness ==
    /\ Exists(EntryOf("B", U64Zero))
    /\ Exists(CounterOf("A"))
    /\ NextSequence(accounts, "A") = U64Zero
    /\ DoUpdate("B", FromNat(1), EntryOf("B", U64Zero), FitText[1], FitText[2]).err
           = "ConstraintSeeds"
    /\ DoCreate("B", CounterOf("A"), EntryOf("A", U64Zero), FitText[1], FitText[2]).err
           = "ConstraintSeeds"
    /\ DoCreate("B", CounterOf("A"), EntryOf("B", U64Zero), FitText[1], FitText[2]).err
           = "AccountAlreadyInUse"

----------------------------------------------------------------------------
(* C20 *)

\* C20: every entry that exists is at the address of its stored owner and
\* sequence number, and the sequence number is below the owner's counter; the
\* address of an owner and its counter's value holds no account, and the
\* owner's create there does not fail with AccountAlreadyInUse: with a title
\* and a message that every program stores it is accepted.
C20_NextAddressFree ==
    /\ \A k \in LiveEntries :
          LET d == accounts[k].data
          IN  /\ k = EntryOf(EntryOwner(d), EntrySequence(d))
              /\ U64Less(EntrySequence(d), NextSequence(accounts, EntryOwner(d)))
    /\ \A o \in Owners :
          Exists(CounterOf(o)) =>
              LET e == EntryOf(o, NextSequence(accounts, o))
              IN  /\ ~Exists(e)
                  /\ \A x \in Texts :
                        DoCreate(o, CounterOf(o), e, x[1], x[2]).err
                            /= "AccountAlreadyInUse"
                  /\ DoCreate(o, CounterOf(o), e, FitText[1], FitText[2]).err = "OK"

\* an owner has the entries 0 and 1, its counter is at 2 and the address of
\* sequence number 2 is free
C20_Witness ==
    \E o \in Owners :
        /\ Exists(EntryOf(o, U64Zero))
        /\ Exists(EntryOf(o, FromNat(1)))
        /\ NextSequence(accounts, o) = FromNat(2)
        /\ ~Exists(EntryOf(o, FromNat(2)))

----------------------------------------------------------------------------
(* C21 *)

\* the addresses keyed by owner p: its counter and its entries
KeysOf(p) == {CounterOf(p)} \cup { EntryOf(p, n) : n \in AnySeqs }

\* the accounts a at the addresses keys
View(a, keys) == [k \in keys \cap DOMAIN a |-> a[k]]

\* the result r leaves the accounts at the addresses keys, and the wallet of
\* p, as they are
Untouched(r, keys, p) ==
    /\ View(r.accounts, keys) = View(accounts, keys)
    /\ r.wallet[p] = wallet[p]

\* what a request does to the accounts at the addresses keys: its error and
\* the accounts at these addresses after it
Outcome(r, keys) == <<r.err, View(r.accounts, keys)>>

\* C21: whatever request o signs, with whichever counter, entry address,
\* entry_id and texts, accepted or not, the counter and the entries keyed by
\* another owner p, and the wallet of p, are after it as they were before.
\* And a step that leaves the accounts keyed by p and the clock as they are
\* leaves the outcome of every request of p on its own accounts (initialize,
\* create at the address of its counter's value, update and delete at each of
\* its entry addresses) as it is:
\* what p's requests do to p's accounts does not depend on what o has done.
C21_OwnerIsolation ==
    /\ [](\A o \in Owners, p \in Owners :
            o /= p =>
                \A keys \in {KeysOf(p)} :
                    /\ \A c \in Owners :
                          Untouched(DoInitialize(o, CounterOf(c)), keys, p)
                    /\ \A e \in { EntryOf(q, m) : q \in Owners, m \in AnySeqs } :
                          /\ \A c \in Owners :
                                Untouched(DoCreate(o, CounterOf(c), e,
                                                   FitText[1], FitText[2]), keys, p)
                          /\ \A n \in AnySeqs :
                                /\ Untouched(DoUpdate(o, n, e, FitText[1], FitText[2]),
                                             keys, p)
                                /\ Untouched(DoDelete(o, n, e), keys, p))
    /\ [][\A p \in Owners :
            (accounts' /= accounts /\ clock' = clock) =>
                \A c \in {CounterOf(p)} :
                    \A e \in {[n \in AnySeqs |-> EntryOf(p, n)]} :
                        \A keys \in {{c} \cup { e[n] : n \in AnySeqs }} :
                            View(accounts', keys) = View(accounts, keys) =>
                                /\ \A r \in {DoInitialize(p, c)} :
                                      \A t \in {DoInitialize(p, c)}' :
                                          Outcome(t, keys) = Outcome(r, keys)
                                /\ Exists(c) =>
                                      \A n \in {NextSequence(accounts, p)} :
                                          \A r \in {DoCreate(p, c, e[n], FitText[1],
                                                             FitText[2])} :
                                              \A t \in {DoCreate(p, c, e[n], FitText[1],
                                                                 FitText[2])}' :
                                                  Outcome(t, keys) = Outcome(r, keys)
                                /\ \A n \in AnySeqs :
                                      /\ \A r \in {DoUpdate(p, n, e[n], FitText[1],
                                                             FitText[2])} :
                                            \A t \in {DoUpdate(p, n, e[n], FitText[1],
                                                               FitText[2])}' :
                                                Outcome(t, keys) = Outcome(r, keys)
                                      /\ \A r \in {DoDelete(p, n, e[n])} :
                                            \A t \in {DoDelete(p, n, e[n])}' :
                                                Outcome(t, keys) = Outcome(r, keys)]_vars

\* A and B have an entry each: A's delete of B's entry is rejected and A's
\* delete of its own entry is accepted
C21_Witness ==
    /\ Exists(EntryOf("A", U64Zero))
    /\ Exists(EntryOf("B", U64Zero))
    /\ DoDelete("A", U64Zero, EntryOf("B", U64Zero)).err /= "OK"
    /\ DoDelete("A", U64Zero, EntryOf("A", U64Zero)).err = "OK"

----------------------------------------------------------------------------
(* C22 *)

\* title.len() > MAX_TITLE_LENGTH in the first program,
\* title.chars().count() > MAX_TITLE_CHARS in the journal program
TitleOver(title) ==
    IF program = "first" THEN ByteLen(title) > MAX_TITLE_LENGTH
    ELSE CharCount(title) > MAX_TITLE_CHARS

\* message.len() > MAX_MESSAGE_LENGTH in the first program,
\* message.chars().count() > MAX_MESSAGE_CHARS in the journal program
MessageOver(message) ==
    IF program = "first" THEN ByteLen(message) > MAX_MESSAGE_LENGTH
    ELSE CharCount(message) > MAX_MESSAGE_CHARS

\* the error err answers the texts x with the title looked at first
TitleFirst(err, x) ==
    /\ (TitleOver(x[1]) /\ MessageOver(x[2])) => err = "TitleTooLong"
    /\ err = "MessageTooLong" => (~TitleOver(x[1]) /\ MessageOver(x[2]))

\* C22: in the two programs of project-1, an owner's create at the address of
\* its counter's value and its update of an entry it has end with TitleTooLong
\* when the title and the message are both over their bounds, and end with
\* MessageTooLong only when the title is within its bound and the message is
\* over its bound.
C22_TitleCheckedFirst ==
    program \in {"first", "journal"} =>
        \A o \in Owners :
            /\ Exists(CounterOf(o)) =>
                  \A e \in {EntryOf(o, NextSequence(accounts, o))} :
                      \A x \in Texts :
                          TitleFirst(DoCreate(o, CounterOf(o), e, x[1], x[2]).err, x)
            /\ \A n \in AnySeqs :
                  \A e \in {EntryOf(o, n)} :
                      Exists(e) =>
                          \A x \in Texts :
                              TitleFirst(DoUpdate(o, n, e, x[1], x[2]).err, x)

\* an owner with entry 0: its update of entry 0 with both texts over their
\* bounds ends with TitleTooLong, and its next create with only the message
\* over its bound ends with MessageTooLong
C22_Witness ==
    \E o \in Owners :
        LET long == Str(MAX_TITLE_CHARS + 1, 2)
            wide == Str(MAX_MESSAGE_CHARS + 1, 2)
        IN  /\ Exists(EntryOf(o, U64Zero))
            /\ TitleOver(long) /\ MessageOver(wide) /\ ~TitleOver(FitText[1])
            /\ DoUpdate(o, U64Zero, EntryOf(o, U64Zero), long, wide).err
                   = "TitleTooLong"
            /\ DoCreate(o, CounterOf(o), EntryOf(o, NextSequence(accounts, o)),
                        FitText[1], wide).err = "MessageTooLong"

====
